---- MODULE Spec2Model ----
(***************************************************************************)
(* Model of disco-bot-manager: the Supervisor (BotManager), the Session    *)
(* Workers (BotInstance), the shared state store (AppState behind a mutex) *)
(* and the presentation layer's writes to the store and to the channels.   *)
(* Every store critical section is one atomic step; every await is a       *)
(* point where other tasks may run.                                        *)
(***************************************************************************)
EXTENDS Integers, Sequences, FiniteSets, TLC

\* ---------------------------------------------------------------- bounds
\* total number of workers ever spawned
MaxWorkers == 2
\* workers ever spawned under the fair specification
MaxLiveWorkers == 1
\* capacity of the manager channel (mpsc::channel(32), scaled down)
MgrCap == 1
\* capacity of a worker's command channel (mpsc::channel(32), scaled down)
ChanCap == 2
\* capacity of the system log (1000 in the code, scaled down)
LogCap == 2
\* commands the presentation layer sends to one channel in the lifecycle
\* specification, and in the playback specification
MaxLifeCmds == 1
MaxPlayCmds == 3
\* log calls in the log specification
MaxLogCalls == 6
\* total number of tracks ever enqueued
MaxTracks == 2
\* width of usize in bits (64 in the code, scaled down)
WordBits == 3
WordSize == 2 ^ WordBits

\* ------------------------------------------------------------ value sets
AccountIds == {"a1", "a2"}
GuildIds == {1}
ChannelIds == {7}
Urls == {1}
Volumes == {35}
Msgs == {"m1", "m2"}
None == 0
\* Option<TrackMetadata>::None
NoMeta == [uuid |-> 0, url |-> 0]
DefaultVolume == 100

Offline == <<"Offline">>
Starting == <<"Starting">>
Online == <<"Online">>
Error(r) == <<"Error", r>>

VARIABLES
    accounts,      \* AppState.accounts: uuid -> AccountState
    system_logs,   \* AppState.system_logs
    manager_rx,    \* messages in flight on the manager channel
    sup,           \* BotManager task: position and locals of spawn_bot
    workers,       \* one BotInstance per spawned task, in spawn order
    chans,         \* per worker: messages in flight on its command channel
    calls,         \* per worker: its Songbird manager, guild -> Call
    tracks,        \* the playback engine's tracks, by handle
    tasks,         \* control tasks spawned by call_control, not yet run
    events,        \* tracks whose TrackObserver invocation is pending
    mv             \* input and result of one operation applied alone

engineVars == <<calls, tracks, tasks, events>>
vars == <<accounts, system_logs, manager_rx, sup, workers, chans,
          calls, tracks, tasks, events, mv>>

\* ----------------------------------------------------------------- store
GuildState_new(id) ==
    [guild_id |-> id, channel_id |-> None, is_playing |-> FALSE,
     is_paused |-> FALSE, volume |-> DefaultVolume, position_secs |-> 0,
     now_playing |-> NoMeta, queue |-> <<>>, voice_channels |-> <<>>]

AccountState_new(uuid) ==
    [uuid |-> uuid, application_id |-> None, status |-> Offline,
     guilds |-> <<>>, command_tx |-> None]

\* a log that refuses the new entry once it is full
AppState_log_drop_newest(logs, msg) ==
    IF Len(logs) >= LogCap THEN logs ELSE Append(logs, msg)

\* AppState::log: push, then remove(0) once the length exceeds the capacity
AppState_log(logs, msg) ==
    LET pushed == Append(logs, msg)
    IN  IF Len(pushed) > LogCap THEN Tail(pushed) ELSE pushed

\* BotInstance::log: the message is prefixed with the worker's uuid
BotInstance_log(w) == AppState_log(system_logs, workers[w].uuid)

\* BotInstance::update_account: f applied to the worker's own account, if any
update_account(w, f(_)) ==
    LET id == workers[w].uuid
    IN  IF id \in DOMAIN accounts
        THEN [accounts EXCEPT ![id] = f(accounts[id])]
        ELSE accounts

\* ------------------------------------------------------------- channels
\* a channel is closed once no Sender is left: neither the one installed in
\* an account record nor the one still held by spawn_bot
SenderInStore(ch) == \E a \in DOMAIN accounts : accounts[a].command_tx = ch
SenderInSup(ch) == sup.pc # "idle" /\ sup.tx = ch
ChanClosed(ch) == ~SenderInStore(ch) /\ ~SenderInSup(ch)

\* a worker is alive from tokio::spawn until BotInstance::run returns
Alive(w) == workers[w].pc # "done"
LiveWorkers(a) == {w \in DOMAIN workers : workers[w].uuid = a /\ Alive(w)}

\* ------------------------------------------------------ presentation layer
\* a worker that keeps the store's guard while it awaits an external call
HoldsStore_across_await(pc) ==
    pc \in {"connecting", "roster", "cmd", "resolving", "syncing"}

\* the store's MutexGuard is held at this position of a worker: at none,
\* every guard is dropped before the next await
HoldsStore(pc) == FALSE

\* state.lock() succeeds for worker w / for the other tasks: nobody else
\* holds the guard
StoreFreeFor(w) ==
    \A v \in DOMAIN workers \ {w} : ~HoldsStore(workers[v].pc)
StoreFree == StoreFreeFor(None)

StartsPending ==
    Cardinality({i \in DOMAIN manager_rx : manager_rx[i].kind = "StartBot"})
    + (IF sup.pc = "idle" THEN 0 ELSE 1)

\* "Start Bot" button: shown only while the account is Offline; at most
\* max workers are ever started
GuiStartBot(a, max) ==
    /\ StoreFree
    /\ a \in DOMAIN accounts
    /\ accounts[a].status = Offline
    /\ Len(manager_rx) < MgrCap
    /\ Len(workers) + StartsPending < max
    /\ manager_rx' = Append(manager_rx, [kind |-> "StartBot", uuid |-> a])
    /\ UNCHANGED <<accounts, system_logs, sup, workers, chans, engineVars, mv>>

\* "Stop Bot" button: shown whenever the account is not Offline
GuiStopBot(a) ==
    /\ StoreFree
    /\ a \in DOMAIN accounts
    /\ accounts[a].status # Offline
    /\ Len(manager_rx) < MgrCap
    /\ manager_rx' = Append(manager_rx, [kind |-> "StopBot", uuid |-> a])
    /\ UNCHANGED <<accounts, system_logs, sup, workers, chans, engineVars, mv>>

\* "Delete" button: the account record, and the Sender in it, are dropped
GuiDelete(a) ==
    /\ StoreFree
    /\ a \in DOMAIN accounts
    /\ accounts' = [b \in DOMAIN accounts \ {a} |-> accounts[b]]
    /\ UNCHANGED <<system_logs, manager_rx, sup, workers, chans, engineVars, mv>>

\* ------------------------------------------------------------- supervisor
SupIdle == [pc |-> "idle", uuid |-> "", tx |-> None]

\* spawn_bot that only treats Starting as running
spawn_bot_check_starting_only(accs, uuid) ==
    IF uuid \in DOMAIN accs
    THEN IF accs[uuid].status = Starting
         THEN [accounts |-> accs, should_spawn |-> FALSE]
         ELSE [accounts |-> [accs EXCEPT ![uuid].status = Starting],
               should_spawn |-> TRUE]
    ELSE [accounts |-> accs, should_spawn |-> FALSE]

\* spawn_bot that spawns without marking the account as Starting
spawn_bot_check_no_starting(accs, uuid) ==
    IF uuid \in DOMAIN accs
    THEN [accounts |-> accs,
          should_spawn |-> accs[uuid].status \notin {Online, Starting}]
    ELSE [accounts |-> accs, should_spawn |-> FALSE]

\* spawn_bot, first critical section: check the status and set Starting
spawn_bot_check(accs, uuid) ==
    IF uuid \in DOMAIN accs
    THEN IF accs[uuid].status \in {Online, Starting}
         THEN [accounts |-> accs, should_spawn |-> FALSE]
         ELSE [accounts |-> [accs EXCEPT ![uuid].status = Starting],
               should_spawn |-> TRUE]
    ELSE [accounts |-> accs, should_spawn |-> FALSE]

SpawnBotCheck ==
    /\ StoreFree
    /\ sup.pc = "idle"
    /\ manager_rx # <<>>
    /\ Head(manager_rx).kind = "StartBot"
    /\ manager_rx' = Tail(manager_rx)
    /\ LET uuid == Head(manager_rx).uuid
           r == spawn_bot_check(accounts, uuid)
       IN  /\ accounts' = r.accounts
           /\ IF r.should_spawn
              THEN \* mpsc::channel(32): the channel of the worker to come
                   /\ sup' = [pc |-> "install", uuid |-> uuid,
                              tx |-> Len(workers) + 1]
                   /\ chans' = Append(chans, <<>>)
              ELSE /\ sup' = SupIdle
                   /\ chans' = chans
    /\ UNCHANGED <<system_logs, workers, calls, tracks, tasks, events, mv>>

\* spawn_bot, second critical section: install the command-channel handle
spawn_bot_install(accs, uuid, tx) ==
    IF uuid \in DOMAIN accs
    THEN [accs EXCEPT ![uuid].command_tx = tx]
    ELSE accs

\* tx is moved into the record if there is one; otherwise spawn_bot keeps it
SpawnBotInstall ==
    /\ StoreFree
    /\ sup.pc = "install"
    /\ accounts' = spawn_bot_install(accounts, sup.uuid, sup.tx)
    /\ sup' = [sup EXCEPT !.pc = "spawn",
                          !.tx = IF sup.uuid \in DOMAIN accounts
                                 THEN None ELSE sup.tx]
    /\ UNCHANGED <<system_logs, manager_rx, workers, chans, engineVars, mv>>

NoCmd == [kind |-> "", guild_id |-> 0, a |-> 0, b |-> 0]
NoSnap == [current |-> None, queue |-> <<>>]

\* BotInstance::new, with the worker's position and locals:
\*   acted: it has received a command or started a reconciliation tick
\*   nrecv: commands received so far; cur: the command being handled
\*   locked: the guild whose Call lock it holds
\*   roster: the guilds get_guilds returned, until they are merged
\*   todo, active_uuids, snap: locals of sync_state
\*   over: history, the tracks that had played to their end when the
\*         reconciliation pass under way began
BotInstance_new(uuid) ==
    [uuid |-> uuid, pc |-> "init", err |-> None, acted |-> FALSE, nrecv |-> 0,
     cur |-> NoCmd, track_lookup |-> <<>>, locked |-> None, roster |-> {},
     todo |-> {},
     active_uuids |-> {}, snap |-> NoSnap, over |-> {}]

\* spawn_bot, tokio::spawn of BotInstance::run; tx goes out of scope
SpawnBotSpawn ==
    /\ sup.pc = "spawn"
    /\ workers' = Append(workers, BotInstance_new(sup.uuid))
    /\ calls' = Append(calls, <<>>)
    /\ sup' = SupIdle
    /\ UNCHANGED <<accounts, system_logs, manager_rx, chans,
                   tracks, tasks, events, mv>>

\* kill_bot that creates the record it does not find
kill_bot_or_insert(accs, uuid) ==
    [a \in DOMAIN accs \cup {uuid} |->
        IF a \in DOMAIN accs
        THEN IF a = uuid
             THEN [accs[a] EXCEPT !.command_tx = None, !.status = Offline]
             ELSE accs[a]
        ELSE AccountState_new(a)]

\* kill_bot: drop the handle and set Offline
kill_bot(accs, uuid) ==
    IF uuid \in DOMAIN accs
    THEN [accs EXCEPT ![uuid].command_tx = None, ![uuid].status = Offline]
    ELSE accs

KillBot ==
    /\ StoreFree
    /\ sup.pc = "idle"
    /\ manager_rx # <<>>
    /\ Head(manager_rx).kind = "StopBot"
    /\ manager_rx' = Tail(manager_rx)
    /\ accounts' = kill_bot(accounts, Head(manager_rx).uuid)
    /\ UNCHANGED <<system_logs, sup, workers, chans, engineVars, mv>>

\* ----------------------------------------------------- worker: connecting
SetPc(w, pc) == [workers EXCEPT ![w].pc = pc]

\* run: log("Initializing Discord client..."), then await the client builder
RunInit(w) ==
    /\ w \in DOMAIN workers
    /\ StoreFreeFor(w)
    /\ workers[w].pc = "init"
    /\ system_logs' = BotInstance_log(w)
    /\ workers' = SetPc(w, "connecting")
    /\ UNCHANGED <<accounts, manager_rx, sup, chans, engineVars, mv>>

\* the failure descriptions a connect attempt of worker w can end with
Reasons(w) == {w}

\* run, Err(e) branch: log("Connection Failed: ...")
RunConnectErr(w) ==
    /\ w \in DOMAIN workers
    /\ workers[w].pc = "connecting"
    /\ \E e \in Reasons(w) :
          workers' = [workers EXCEPT ![w].pc = "failed", ![w].err = e]
    /\ system_logs' = BotInstance_log(w)
    /\ UNCHANGED <<accounts, manager_rx, sup, chans, engineVars, mv>>

\* run whose Err(e) branch falls through into the command loop
RunSetError_no_return(w) ==
    /\ w \in DOMAIN workers
    /\ workers[w].pc = "failed"
    /\ accounts' = update_account(w,
                      LAMBDA acc : [acc EXCEPT !.status = Error(workers[w].err)])
    /\ workers' = SetPc(w, "loop")
    /\ UNCHANGED <<system_logs, manager_rx, sup, chans, engineVars, mv>>

\* run, Err(e) branch: status = Error(e.to_string()), and run returns
RunSetError(w) ==
    /\ w \in DOMAIN workers
    /\ StoreFreeFor(w)
    /\ workers[w].pc = "failed"
    /\ accounts' = update_account(w,
                      LAMBDA acc : [acc EXCEPT !.status = Error(workers[w].err)])
    /\ workers' = SetPc(w, "done")
    /\ UNCHANGED <<system_logs, manager_rx, sup, chans, engineVars, mv>>

\* run, Ok(client) branch: get_current_application_info returned; the
\* application id is stored, or the failure logged; await get_guilds
RunAppInfo(w) ==
    /\ w \in DOMAIN workers
    /\ StoreFreeFor(w)
    /\ workers[w].pc = "connecting"
    /\ \/ /\ accounts' = update_account(w,
                            LAMBDA acc : [acc EXCEPT !.application_id = 1])
          /\ system_logs' = system_logs
       \/ /\ system_logs' = BotInstance_log(w)
          /\ accounts' = accounts
    /\ workers' = SetPc(w, "roster")
    /\ UNCHANGED <<manager_rx, sup, chans, engineVars, mv>>

\* a merge that inserts every roster guild anew
MergeRoster_insert(guilds, roster) ==
    [g \in DOMAIN guilds \cup roster |->
        IF g \in roster THEN GuildState_new(g) ELSE guilds[g]]

\* acc.guilds.entry(id).or_insert_with(GuildState::new) for every roster guild
MergeRoster(guilds, roster) ==
    [g \in DOMAIN guilds \cup roster |->
        IF g \in DOMAIN guilds THEN guilds[g] ELSE GuildState_new(g)]

\* run: roster fetched -> Online and guilds merged; a failed fetch is ignored
RunRoster(w) ==
    /\ w \in DOMAIN workers
    /\ StoreFreeFor(w)
    /\ workers[w].pc = "roster"
    /\ \/ \E roster \in SUBSET GuildIds :
             /\ accounts' = update_account(w,
                    LAMBDA acc : [acc EXCEPT
                        !.status = Online,
                        !.guilds = MergeRoster(acc.guilds, roster)])
             /\ workers' = [workers EXCEPT ![w].pc = "ready",
                                           ![w].roster = roster]
       \/ /\ accounts' = accounts
          /\ workers' = SetPc(w, "ready")
    /\ UNCHANGED <<system_logs, manager_rx, sup, chans, engineVars, mv>>

\* run: log("Connected and Ready."), then command_loop
RunReady(w) ==
    /\ w \in DOMAIN workers
    /\ StoreFreeFor(w)
    /\ workers[w].pc = "ready"
    /\ system_logs' = BotInstance_log(w)
    /\ workers' = [workers EXCEPT ![w].pc = "loop", ![w].roster = {}]
    /\ UNCHANGED <<accounts, manager_rx, sup, chans, engineVars, mv>>

\* ------------------------------------------------------- playback engine
\* BotInstance::update_guild: f applied to one guild of the worker's own
\* account, if both exist
update_guild(w, g, f(_)) ==
    LET id == workers[w].uuid
    IN  IF id \in DOMAIN accounts /\ g \in DOMAIN accounts[id].guilds
        THEN [accounts EXCEPT ![id].guilds[g] = f(accounts[id].guilds[g])]
        ELSE accounts

Done(mode) == mode \in {"Stop", "End", "Errored"}

\* TrackHandle::stop on every handle in hs: a live track stops, and its End
\* event is raised with PlayMode::Stop
StopTracks(trs, hs) ==
    [h \in DOMAIN trs |->
        IF h \in hs /\ ~Done(trs[h].mode)
        THEN [trs[h] EXCEPT !.mode = "Stop"] ELSE trs[h]]

Stopped(trs, hs) == {h \in hs : ~Done(trs[h].mode)}

RECURSIVE DropDone(_, _)
DropDone(trs, q) ==
    IF q = <<>> THEN q
    ELSE IF Done(trs[Head(q)].mode) THEN DropDone(trs, Tail(q)) ELSE q

\* the engine's queue handler once the head track is over: the head is
\* popped, then heads that can no longer play are popped too
Advance(trs, q) ==
    IF q # <<>> /\ Done(trs[Head(q)].mode) THEN DropDone(trs, Tail(q)) ELSE q

\* ... and the new head is played
PlayHead(trs, oldq, newq) ==
    IF newq # <<>> /\ (oldq = <<>> \/ Head(oldq) # Head(newq))
    THEN [trs EXCEPT ![Head(newq)].mode = "Play"] ELSE trs

Range(q) == {q[i] : i \in DOMAIN q}

\* VecDeque::remove(i) and VecDeque::insert(i, x)
DequeRemove(q, i) == SubSeq(q, 1, i) \o SubSeq(q, i + 2, Len(q))
DequeInsert(q, i, x) == SubSeq(q, 1, i) \o <<x>> \o SubSeq(q, i + 1, Len(q))

\* usize addition: it wraps, or panics in a build with overflow checks
Overflows(x, y) == x + y >= WordSize
WrappingAdd(x, y) == (x + y) % WordSize

\* move_track without the offset for the now-playing entry
move_track_no_offset(deque, from, to, overflow_checks) ==
    IF Len(deque) <= 1 THEN deque
    ELSE IF from < Len(deque) /\ to < Len(deque)
         THEN DequeInsert(DequeRemove(deque, from), to, deque[from + 1])
         ELSE deque

\* the closure of move_track, on the engine queue (index 0 is now playing);
\* a panic on overflow unwinds before the queue is touched
move_track(deque, from, to, overflow_checks) ==
    IF Len(deque) <= 1 THEN deque
    ELSE LET offset == 1
             real_from == WrappingAdd(from, offset)
             real_to == WrappingAdd(to, offset)
         IN  IF overflow_checks
                /\ (Overflows(from, offset) \/ Overflows(to, offset))
             THEN deque
             ELSE IF real_from < Len(deque) /\ real_to < Len(deque)
                  THEN DequeInsert(DequeRemove(deque, real_from), real_to,
                                   deque[real_from + 1])
                  ELSE deque

\* ClearQueue that drains from the front
clear_queue_all(deque) == IF Len(deque) > 1 THEN <<>> ELSE deque

\* the closure of ClearQueue: deque.drain(1..)
clear_queue(deque) == IF Len(deque) > 1 THEN <<Head(deque)>> ELSE deque

\* the closure a control task runs on the Call's queue: the queue and the
\* tracks afterwards, and the tracks it stopped
Control(t, q, trs, overflow_checks) ==
    CASE t.op = "Stop" ->
            [queue |-> <<>>, tracks |-> StopTracks(trs, Range(q)),
             ended |-> Stopped(trs, Range(q))]
      [] t.op = "Skip" ->
            IF q = <<>> THEN [queue |-> q, tracks |-> trs, ended |-> {}]
            ELSE LET st == StopTracks(trs, {Head(q)})
                     nq == Advance(st, q)
                 IN  [queue |-> nq, tracks |-> PlayHead(st, q, nq),
                      ended |-> Stopped(trs, {Head(q)})]
      [] t.op = "Pause" ->
            [queue |-> q, ended |-> {},
             tracks |-> IF q # <<>> /\ ~Done(trs[Head(q)].mode)
                        THEN [trs EXCEPT ![Head(q)].mode = "Pause"] ELSE trs]
      [] t.op = "Resume" ->
            [queue |-> q, ended |-> {},
             tracks |-> IF q # <<>> /\ ~Done(trs[Head(q)].mode)
                        THEN [trs EXCEPT ![Head(q)].mode = "Play"] ELSE trs]
      [] t.op = "Volume" ->
            [queue |-> q, ended |-> {},
             tracks |-> [h \in DOMAIN trs |->
                            IF h \in Range(q) /\ ~Done(trs[h].mode)
                            THEN [trs[h] EXCEPT !.volume = t.a] ELSE trs[h]]]
      [] t.op = "MoveTrack" ->
            [queue |-> move_track(q, t.a, t.b, overflow_checks),
             tracks |-> trs, ended |-> {}]
      [] t.op = "ClearQueue" ->
            [queue |-> clear_queue(q), tracks |-> trs, ended |-> {}]

\* the Call lock of worker w's guild g is held by the worker itself
CallLocked(w, g) == workers[w].locked = g

\* the task spawned by call_control: lock the Call, run the closure
ControlRun(t) ==
    /\ t \in tasks
    /\ ~CallLocked(t.w, t.g)
    /\ \E overflow_checks \in BOOLEAN :
          LET r == Control(t, calls[t.w][t.g].queue, tracks, overflow_checks)
          IN  /\ calls' = [calls EXCEPT ![t.w][t.g].queue = r.queue]
              /\ tracks' = r.tracks
              /\ events' = events \cup r.ended
    /\ tasks' = tasks \ {t}
    /\ UNCHANGED <<accounts, system_logs, manager_rx, sup, workers, chans, mv>>

\* the engine, on its own: the playing head track ends or fails; the queue
\* handler moves on and the track's event is raised
TrackOver(h, mode) ==
    /\ h \in DOMAIN tracks
    /\ tracks[h].mode = "Play"
    /\ LET w == tracks[h].w
           g == tracks[h].g
           q == calls[w][g].queue
           st == [tracks EXCEPT ![h].mode = mode]
           nq == Advance(st, q)
       IN  /\ calls' = [calls EXCEPT ![w][g].queue = nq]
           /\ tracks' = PlayHead(st, q, nq)
    /\ events' = events \cup {h}
    /\ UNCHANGED <<accounts, system_logs, manager_rx, sup, workers, chans,
                   tasks, mv>>

TrackEnd(h) == TrackOver(h, "End")
TrackError(h) == TrackOver(h, "Errored")

\* an observer that clears now_playing on End and leaves is_playing
ObserverAct_keeps_playing(h) ==
    /\ h \in events
    /\ events' = events \ {h}
    /\ LET uuid == tracks[h].uuid
           g == tracks[h].g
           known == uuid \in DOMAIN accounts /\ g \in DOMAIN accounts[uuid].guilds
       IN  /\ accounts' =
                IF known /\ tracks[h].mode = "End"
                THEN [accounts EXCEPT ![uuid].guilds[g].now_playing = NoMeta]
                ELSE accounts
           /\ system_logs' =
                IF known /\ tracks[h].mode = "Errored"
                THEN Append(system_logs, uuid) ELSE system_logs
    /\ UNCHANGED <<manager_rx, sup, workers, chans, calls, tracks, tasks, mv>>

\* an observer that clears the guild's playback in every account that has it
ObserverAct_any_account(h) ==
    /\ h \in events
    /\ events' = events \ {h}
    /\ LET uuid == tracks[h].uuid
           g == tracks[h].g
           known == uuid \in DOMAIN accounts /\ g \in DOMAIN accounts[uuid].guilds
       IN  /\ accounts' =
                IF tracks[h].mode = "End"
                THEN [a \in DOMAIN accounts |->
                        IF g \in DOMAIN accounts[a].guilds
                        THEN [accounts[a] EXCEPT
                                 !.guilds[g].now_playing = NoMeta,
                                 !.guilds[g].is_playing = FALSE]
                        ELSE accounts[a]]
                ELSE accounts
           /\ system_logs' =
                IF known /\ tracks[h].mode = "Errored"
                THEN Append(system_logs, uuid) ELSE system_logs
    /\ UNCHANGED <<manager_rx, sup, workers, chans, calls, tracks, tasks, mv>>

\* TrackObserver::act for the event of track h
ObserverAct(h) ==
    /\ StoreFree
    /\ h \in events
    /\ events' = events \ {h}
    /\ LET uuid == tracks[h].uuid
           g == tracks[h].g
           known == uuid \in DOMAIN accounts /\ g \in DOMAIN accounts[uuid].guilds
       IN  /\ accounts' =
                IF known /\ tracks[h].mode = "End"
                THEN [accounts EXCEPT ![uuid].guilds[g].now_playing = NoMeta,
                                      ![uuid].guilds[g].is_playing = FALSE]
                ELSE accounts
           /\ system_logs' =
                IF known /\ tracks[h].mode = "Errored"
                THEN Append(system_logs, uuid) ELSE system_logs
    /\ UNCHANGED <<manager_rx, sup, workers, chans, calls, tracks, tasks, mv>>

\* ---------------------------------------------------- worker: command loop
ControlKinds ==
    {"Stop", "Skip", "Pause", "Resume", "Volume", "MoveTrack", "ClearQueue"}

\* call_control: a task is spawned if the guild has a Call (seq and at are
\* history: the command's number and the queue's handles at that time)
call_control(w, cmd, seq) ==
    IF cmd.guild_id \in DOMAIN calls[w]
    THEN tasks \cup {[w |-> w, g |-> cmd.guild_id, op |-> cmd.kind,
                      a |-> cmd.a, b |-> cmd.b, seq |-> seq,
                      at |-> Range(calls[w][cmd.guild_id].queue)]}
    ELSE tasks

\* Volume that leaves the Guild record to the reconciliation tick
mirror_volume_deferred(gs, volume) == gs

\* handle_command, Volume: update_guild(|g| g.volume = volume)
mirror_volume(gs, volume) == [gs EXCEPT !.volume = volume]

\* command_loop, cmd_rx.recv() = Some(cmd): handle_command up to its first
\* await; the control commands are handled in full
LoopRecv(w) ==
    /\ w \in DOMAIN workers
    /\ workers[w].pc = "loop"
    /\ chans[w] # <<>>
    /\ Head(chans[w]).kind = "Volume" => StoreFreeFor(w)
    /\ chans' = [chans EXCEPT ![w] = Tail(chans[w])]
    /\ LET cmd == Head(chans[w])
           seq == workers[w].nrecv + 1
       IN  IF cmd.kind \in ControlKinds
           THEN /\ tasks' = call_control(w, cmd, seq)
                /\ accounts' =
                     IF cmd.kind = "Volume"
                     THEN update_guild(w, cmd.guild_id,
                              LAMBDA gs : mirror_volume(gs, cmd.a))
                     ELSE accounts
                /\ workers' = [workers EXCEPT ![w].nrecv = seq,
                                              ![w].acted = TRUE]
           ELSE /\ workers' = [workers EXCEPT ![w].nrecv = seq,
                                              ![w].acted = TRUE,
                                              ![w].cur = cmd,
                                              ![w].pc = "cmd"]
                /\ UNCHANGED <<accounts, tasks>>
    /\ UNCHANGED <<system_logs, manager_rx, sup, calls, tracks, events, mv>>

EndCmd(w) == [workers EXCEPT ![w].pc = "loop", ![w].cur = NoCmd]

\* handle_command, Join: sb.join returned, Ok or Err; the Call of the
\* guild exists from then on
HandleJoin(w) ==
    /\ w \in DOMAIN workers
    /\ workers[w].pc = "cmd"
    /\ workers[w].cur.kind = "Join"
    /\ LET g == workers[w].cur.guild_id
           call == IF g \in DOMAIN calls[w] THEN calls[w][g]
                   ELSE [channel |-> None, queue |-> <<>>]
       IN  \/ /\ calls' = [calls EXCEPT ![w] =
                    [x \in DOMAIN calls[w] \cup {g} |->
                        IF x = g THEN [call EXCEPT !.channel = workers[w].cur.a]
                        ELSE calls[w][x]]]
              /\ workers' = EndCmd(w)
           \/ /\ calls' = [calls EXCEPT ![w] =
                    [x \in DOMAIN calls[w] \cup {g} |->
                        IF x = g THEN call ELSE calls[w][x]]]
              /\ workers' = SetPc(w, "join_error")
    /\ UNCHANGED <<accounts, system_logs, manager_rx, sup, chans, tracks,
                   tasks, events, mv>>

\* a failed join that is tried again
HandleJoinError_retry(w) ==
    /\ w \in DOMAIN workers
    /\ workers[w].pc = "join_error"
    /\ system_logs' = BotInstance_log(w)
    /\ workers' = SetPc(w, "cmd")
    /\ UNCHANGED <<accounts, manager_rx, sup, chans, engineVars, mv>>

\* handle_command, Join, Err(e): log("Failed to join channel: ...")
HandleJoinError(w) ==
    /\ w \in DOMAIN workers
    /\ StoreFreeFor(w)
    /\ workers[w].pc = "join_error"
    /\ system_logs' = BotInstance_log(w)
    /\ workers' = EndCmd(w)
    /\ UNCHANGED <<accounts, manager_rx, sup, chans, engineVars, mv>>

\* handle_command, Leave: sb.leave returned, Ok or Err
HandleLeave(w) ==
    /\ w \in DOMAIN workers
    /\ workers[w].pc = "cmd"
    /\ workers[w].cur.kind = "Leave"
    /\ LET g == workers[w].cur.guild_id
       IN  \/ /\ g \in DOMAIN calls[w]
              /\ calls' = [calls EXCEPT ![w][g].channel = None]
              /\ workers' = SetPc(w, "left")
           \/ /\ calls' = calls
              /\ workers' = SetPc(w, "leave_error")
    /\ UNCHANGED <<accounts, system_logs, manager_rx, sup, chans, tracks,
                   tasks, events, mv>>

\* handle_command, Leave, Err(e): log("Failed to leave channel: ...")
HandleLeaveError(w) ==
    /\ w \in DOMAIN workers
    /\ StoreFreeFor(w)
    /\ workers[w].pc = "leave_error"
    /\ system_logs' = BotInstance_log(w)
    /\ workers' = SetPc(w, "left")
    /\ UNCHANGED <<accounts, manager_rx, sup, chans, engineVars, mv>>

\* handle_command, Leave: update_guild(channel_id = None)
HandleLeft(w) ==
    /\ w \in DOMAIN workers
    /\ StoreFreeFor(w)
    /\ workers[w].pc = "left"
    /\ accounts' = update_guild(w, workers[w].cur.guild_id,
                       LAMBDA gs : [gs EXCEPT !.channel_id = None])
    /\ workers' = EndCmd(w)
    /\ UNCHANGED <<system_logs, manager_rx, sup, chans, engineVars, mv>>

\* play_track: without a Call the command is logged and dropped; with one,
\* the Call is locked and the resolver awaited
PlayLock(w) ==
    /\ w \in DOMAIN workers
    /\ StoreFreeFor(w)
    /\ workers[w].pc = "cmd"
    /\ workers[w].cur.kind = "Play"
    /\ LET g == workers[w].cur.guild_id
       IN  IF g \in DOMAIN calls[w]
           THEN /\ workers' = [workers EXCEPT ![w].pc = "resolving",
                                              ![w].locked = g]
                /\ system_logs' = system_logs
           ELSE /\ workers' = EndCmd(w)
                /\ system_logs' = BotInstance_log(w)
    /\ UNCHANGED <<accounts, manager_rx, sup, chans, engineVars, mv>>

\* TrackMetadata built by play_track for the track with engine handle h
TrackMetadata_new(h, url) == [uuid |-> 10 + h, url |-> url]

\* Call::enqueue: the track joins the queue, playing if the queue was empty
Enqueue(trs, q, w, g) ==
    Append(trs, [mode |-> IF q = <<>> THEN "Play" ELSE "Pause",
                 volume |-> DefaultVolume, position |-> 0,
                 w |-> w, uuid |-> workers[w].uuid, g |-> g])

\* play_track, resolver returned: Ok -> enqueue, index, observers, log;
\* Err -> the Err arm is entered
PlayResolved(w) ==
    /\ w \in DOMAIN workers
    /\ StoreFreeFor(w)
    /\ workers[w].pc = "resolving"
    /\ LET g == workers[w].cur.guild_id
           h == Len(tracks) + 1
           lookup == workers[w].track_lookup
           done == [EndCmd(w) EXCEPT ![w].locked = None]
       IN  \/ /\ tracks' = Enqueue(tracks, calls[w][g].queue, w, g)
              /\ calls' = [calls EXCEPT ![w][g].queue = Append(@, h)]
              /\ workers' = [done EXCEPT ![w].track_lookup =
                    [x \in DOMAIN lookup \cup {h} |->
                        IF x = h THEN TrackMetadata_new(h, workers[w].cur.a)
                        ELSE lookup[x]]]
              /\ system_logs' = BotInstance_log(w)
           \/ /\ workers' = SetPc(w, "source_error")
              /\ UNCHANGED <<calls, tracks, system_logs>>
    /\ UNCHANGED <<accounts, manager_rx, sup, chans, tasks, events, mv>>

\* a failed resolution that is surfaced as the account's Status
PlaySourceError_status(w) ==
    /\ w \in DOMAIN workers
    /\ workers[w].pc = "source_error"
    /\ system_logs' = BotInstance_log(w)
    /\ accounts' = update_account(w,
                      LAMBDA acc : [acc EXCEPT !.status = Error(w)])
    /\ workers' = [EndCmd(w) EXCEPT ![w].locked = None]
    /\ UNCHANGED <<manager_rx, sup, chans, engineVars, mv>>

\* play_track, Err(e) arm: log("Source Error: ..."); the Call lock is
\* released and handle_command returns
PlaySourceError(w) ==
    /\ w \in DOMAIN workers
    /\ StoreFreeFor(w)
    /\ workers[w].pc = "source_error"
    /\ system_logs' = BotInstance_log(w)
    /\ workers' = [EndCmd(w) EXCEPT ![w].locked = None]
    /\ UNCHANGED <<accounts, manager_rx, sup, chans, engineVars, mv>>

\* fetch_channels whose failed request breaks out of the command loop
HandleFetchChannels_break(w) ==
    /\ w \in DOMAIN workers
    /\ workers[w].pc = "cmd"
    /\ workers[w].cur.kind = "FetchChannels"
    /\ \/ /\ \E voice_chans \in {<<>>} \cup {<<c>> : c \in ChannelIds} :
                accounts' = update_guild(w, workers[w].cur.guild_id,
                    LAMBDA gs : [gs EXCEPT !.voice_channels = voice_chans])
          /\ workers' = EndCmd(w)
       \/ /\ accounts' = accounts
          /\ workers' = [EndCmd(w) EXCEPT ![w].pc = "closing"]
    /\ UNCHANGED <<system_logs, manager_rx, sup, chans, engineVars, mv>>

\* fetch_channels: the voice channels replace the guild's list; a failed
\* request changes nothing
HandleFetchChannels(w) ==
    /\ w \in DOMAIN workers
    /\ StoreFreeFor(w)
    /\ workers[w].pc = "cmd"
    /\ workers[w].cur.kind = "FetchChannels"
    /\ \/ \E voice_chans \in {<<>>} \cup {<<c>> : c \in ChannelIds} :
             accounts' = update_guild(w, workers[w].cur.guild_id,
                 LAMBDA gs : [gs EXCEPT !.voice_channels = voice_chans])
       \/ accounts' = accounts
    /\ workers' = EndCmd(w)
    /\ UNCHANGED <<system_logs, manager_rx, sup, chans, engineVars, mv>>

\* remove_track: the first queue entry whose metadata carries the uuid
Matches(w, q, target) ==
    {i \in DOMAIN q : /\ q[i] \in DOMAIN workers[w].track_lookup
                      /\ workers[w].track_lookup[q[i]].uuid = target}

\* a scan that takes the entry at the front of the queue for the match
FirstMatch_head(w, q, target) == 1

FirstMatch(w, q, target) ==
    CHOOSE i \in Matches(w, q, target) : \A j \in Matches(w, q, target) : i <= j

\* remove_track: that entry is stopped and the removal logged
HandleRemoveTrack(w) ==
    /\ w \in DOMAIN workers
    /\ StoreFreeFor(w)
    /\ workers[w].pc = "cmd"
    /\ workers[w].cur.kind = "RemoveTrack"
    /\ LET g == workers[w].cur.guild_id
           q == IF g \in DOMAIN calls[w] THEN calls[w][g].queue ELSE <<>>
       IN  IF Matches(w, q, workers[w].cur.a) # {}
           THEN LET h == q[FirstMatch(w, q, workers[w].cur.a)]
                    st == StopTracks(tracks, {h})
                    nq == Advance(st, q)
                IN  /\ tracks' = PlayHead(st, q, nq)
                    /\ calls' = [calls EXCEPT ![w][g].queue = nq]
                    /\ events' = events \cup Stopped(tracks, {h})
                    /\ system_logs' = BotInstance_log(w)
           ELSE UNCHANGED <<tracks, calls, events, system_logs>>
    /\ workers' = EndCmd(w)
    /\ UNCHANGED <<accounts, manager_rx, sup, chans, tasks, mv>>

\* --------------------------------------------- worker: reconciliation tick
\* a retain that keeps every entry
Retain_all(lookup, active) == lookup

\* the tracks of worker w that have played to their end
Ended(w) ==
    {h \in DOMAIN tracks : tracks[h].w = w /\ tracks[h].mode = "End"}

\* a prune that clears the index
Retain_none(lookup, active) == <<>>

\* track_lookup.retain(|k, _| active_uuids.contains(k))
Retain(lookup, active) == [h \in DOMAIN lookup \cap active |-> lookup[h]]

\* sync_state, first critical section: the guilds of the account are read
\* (the pass ends at once if the account is gone); without a guild that
\* has a Call nothing is awaited and the index is pruned right away
SyncBegin(w) ==
    /\ w \in DOMAIN workers
    /\ StoreFreeFor(w)
    /\ workers[w].pc = "loop"
    /\ LET id == workers[w].uuid
           todo == DOMAIN accounts[id].guilds \cap DOMAIN calls[w]
       IN  workers' =
             IF id \in DOMAIN accounts
             THEN IF todo = {}
                  THEN [workers EXCEPT
                           ![w].acted = TRUE,
                           ![w].track_lookup = Retain(@, {})]
                  ELSE [workers EXCEPT
                           ![w].pc = "sync", ![w].acted = TRUE,
                           ![w].active_uuids = {}, ![w].todo = todo,
                           ![w].over = Ended(w)]
             ELSE [workers EXCEPT ![w].acted = TRUE]
    /\ UNCHANGED <<accounts, system_logs, manager_rx, sup, chans,
                   engineVars, mv>>

\* sync_state, one guild: the Call is locked, the current track and the
\* queue are read, get_info is awaited
SyncSnapshot(w, g) ==
    /\ w \in DOMAIN workers
    /\ workers[w].pc = "sync"
    /\ g \in workers[w].todo
    /\ LET q == calls[w][g].queue
       IN  workers' = [workers EXCEPT
              ![w].pc = "syncing", ![w].locked = g,
              ![w].todo = @ \ {g},
              ![w].snap = [current |-> IF q = <<>> THEN None ELSE Head(q),
                           queue |-> q]]
    /\ UNCHANGED <<accounts, system_logs, manager_rx, sup, chans,
                   engineVars, mv>>

Lookup(w, h) ==
    IF h \in DOMAIN workers[w].track_lookup
    THEN workers[w].track_lookup[h] ELSE NoMeta

RECURSIVE LookupAll(_, _)
LookupAll(w, q) ==
    IF q = <<>> THEN <<>>
    ELSE LET rest == LookupAll(w, Tail(q))
         IN  IF Head(q) \in DOMAIN workers[w].track_lookup
             THEN <<workers[w].track_lookup[Head(q)]>> \o rest ELSE rest

\* a rebuild that takes every track that is not over for paused
Rebuilt_paused_unless_over(w, g, info_ok) ==
    LET cur == workers[w].snap.current
        q == workers[w].snap.queue
        info == cur # None /\ info_ok
    IN  [is_playing |-> info /\ tracks[cur].mode = "Play",
         is_paused |-> info /\ ~Done(tracks[cur].mode),
         position_secs |-> IF info THEN tracks[cur].position ELSE 0,
         volume |-> IF info THEN tracks[cur].volume ELSE DefaultVolume,
         now_playing |-> IF info THEN Lookup(w, cur) ELSE NoMeta,
         queue |-> IF q = <<>> THEN <<>> ELSE LookupAll(w, Tail(q)),
         channel_id |-> calls[w][g].channel]

\* sync_state: the fields rebuilt from the snapshot; info_ok says whether
\* get_info answered
Rebuilt(w, g, info_ok) ==
    LET cur == workers[w].snap.current
        q == workers[w].snap.queue
        info == cur # None /\ info_ok
    IN  [is_playing |-> info /\ tracks[cur].mode = "Play",
         is_paused |-> info /\ tracks[cur].mode = "Pause",
         position_secs |-> IF info THEN tracks[cur].position ELSE 0,
         volume |-> IF info THEN tracks[cur].volume ELSE DefaultVolume,
         now_playing |-> IF info THEN Lookup(w, cur) ELSE NoMeta,
         queue |-> IF q = <<>> THEN <<>> ELSE LookupAll(w, Tail(q)),
         channel_id |-> calls[w][g].channel]

\* sync_state, one guild: update_guild with the rebuilt fields; an ended
\* track may or may not still answer get_info
SyncUpdate(w) ==
    /\ w \in DOMAIN workers
    /\ StoreFreeFor(w)
    /\ workers[w].pc = "syncing"
    /\ LET g == workers[w].locked
           cur == workers[w].snap.current
       IN  \E info_ok \in BOOLEAN :
              /\ info_ok \/ (cur # None /\ Done(tracks[cur].mode))
              /\ accounts' = update_guild(w, g,
                    LAMBDA gs :
                       LET r == Rebuilt(w, g, info_ok)
                       IN  [gs EXCEPT !.is_playing = r.is_playing,
                                      !.is_paused = r.is_paused,
                                      !.position_secs = r.position_secs,
                                      !.volume = r.volume,
                                      !.now_playing = r.now_playing,
                                      !.queue = r.queue,
                                      !.channel_id = r.channel_id])
    /\ workers' = [workers EXCEPT
          ![w].pc = "sync", ![w].locked = None, ![w].snap = NoSnap,
          ![w].active_uuids = @ \cup Range(workers[w].snap.queue)
              \cup (IF workers[w].snap.current = None THEN {}
                    ELSE {workers[w].snap.current})]
    /\ UNCHANGED <<system_logs, manager_rx, sup, chans, engineVars, mv>>

\* sync_state, after the last guild: the index is pruned
SyncPrune(w) ==
    /\ w \in DOMAIN workers
    /\ workers[w].pc = "sync"
    /\ workers[w].todo = {}
    /\ workers' = [workers EXCEPT
          ![w].pc = "loop", ![w].active_uuids = {}, ![w].over = {},
          ![w].track_lookup = Retain(@, workers[w].active_uuids)]
    /\ UNCHANGED <<accounts, system_logs, manager_rx, sup, chans,
                   engineVars, mv>>

\* ------------------------------------------------ worker: leaving the loop
\* command_loop that also waits for the Status to be Offline before it
\* takes the closed channel as its signal
LoopClosed_status(w) ==
    /\ w \in DOMAIN workers
    /\ workers[w].pc = "loop"
    /\ chans[w] = <<>>
    /\ ChanClosed(w)
    /\ workers[w].uuid \in DOMAIN accounts
    /\ accounts[workers[w].uuid].status = Offline
    /\ system_logs' = BotInstance_log(w)
    /\ workers' = SetPc(w, "closing")
    /\ UNCHANGED <<accounts, manager_rx, sup, chans, engineVars, mv>>

\* a loop that ends as soon as the last sender is gone, whatever is queued
LoopClosed_undrained(w) ==
    /\ w \in DOMAIN workers
    /\ workers[w].pc = "loop"
    /\ ChanClosed(w)
    /\ system_logs' = BotInstance_log(w)
    /\ workers' = SetPc(w, "closing")
    /\ UNCHANGED <<accounts, manager_rx, sup, chans, engineVars, mv>>

\* a loop that takes the closed channel as a signal while a command is
\* still being handled
LoopClosed_preempt(w) ==
    /\ w \in DOMAIN workers
    /\ workers[w].pc \in {"loop", "cmd", "resolving"}
    /\ chans[w] = <<>>
    /\ ChanClosed(w)
    /\ system_logs' = BotInstance_log(w)
    /\ workers' = [workers EXCEPT ![w].pc = "closing", ![w].locked = None]
    /\ UNCHANGED <<accounts, manager_rx, sup, chans, engineVars, mv>>

\* command_loop, cmd_rx.recv() = None: log("Command channel closed...")
LoopClosed(w) ==
    /\ w \in DOMAIN workers
    /\ StoreFreeFor(w)
    /\ workers[w].pc = "loop"
    /\ chans[w] = <<>>
    /\ ChanClosed(w)
    /\ system_logs' = BotInstance_log(w)
    /\ workers' = SetPc(w, "closing")
    /\ UNCHANGED <<accounts, manager_rx, sup, chans, engineVars, mv>>

\* an exit that writes Offline into a record it creates if it finds none
LoopExit_insert(w) ==
    /\ w \in DOMAIN workers
    /\ workers[w].pc = "closing"
    /\ accounts' =
          LET id == workers[w].uuid
          IN  [a \in DOMAIN accounts \cup {id} |->
                 IF a \in DOMAIN accounts
                 THEN IF a = id THEN [accounts[a] EXCEPT !.status = Offline]
                      ELSE accounts[a]
                 ELSE AccountState_new(id)]
    /\ workers' = SetPc(w, "done")
    /\ UNCHANGED <<system_logs, manager_rx, sup, chans, engineVars, mv>>

\* command_loop, after the loop: status = Offline, and run returns
LoopExit(w) ==
    /\ w \in DOMAIN workers
    /\ StoreFreeFor(w)
    /\ workers[w].pc = "closing"
    /\ accounts' = update_account(w,
                      LAMBDA acc : [acc EXCEPT !.status = Offline])
    /\ workers' = SetPc(w, "done")
    /\ UNCHANGED <<system_logs, manager_rx, sup, chans, engineVars, mv>>


\* ----------------------------------------- presentation layer: commands
Cmd(kind, g, a, b) == [kind |-> kind, guild_id |-> g, a |-> a, b |-> b]

\* the commands the dashboard offers for a guild record
GuiCmds(g, gs) ==
    {Cmd("FetchChannels", g, 0, 0)}
    \cup {Cmd("Join", g, gs.voice_channels[i], 0) : i \in DOMAIN gs.voice_channels}
    \cup (IF gs.channel_id = None THEN {}
          ELSE {Cmd("Leave", g, 0, 0), Cmd("Stop", g, 0, 0),
                Cmd("Skip", g, 0, 0),
                Cmd(IF gs.is_paused THEN "Resume" ELSE "Pause", g, 0, 0)}
               \cup {Cmd("Volume", g, v, 0) : v \in Volumes}
               \cup {Cmd("Play", g, u, 0) : u \in Urls}
               \cup (IF gs.queue = <<>> THEN {} ELSE {Cmd("ClearQueue", g, 0, 0)})
               \cup {Cmd("MoveTrack", g, i - 1, i - 2) :
                        i \in DOMAIN gs.queue \ {1}}
               \cup {Cmd("MoveTrack", g, i - 1, i) :
                        i \in DOMAIN gs.queue \ {Len(gs.queue)}}
               \cup {Cmd("RemoveTrack", g, gs.queue[i].uuid, 0) :
                        i \in DOMAIN gs.queue})

\* commands sent so far on channel ch
Sent(ch) ==
    Len(chans[ch]) + (IF ch \in DOMAIN workers THEN workers[ch].nrecv ELSE 0)

\* Play commands not yet resolved
PlaysPending ==
    Cardinality({<<w, i>> \in
        UNION {{<<w, i>> : i \in DOMAIN chans[w]} : w \in DOMAIN chans} :
        chans[w][i].kind = "Play"})
    + Cardinality({w \in DOMAIN workers : workers[w].cur.kind = "Play"})

\* a dashboard click: try_send on the handle installed in the record
GuiSend(a, kinds, max) ==
    /\ StoreFree
    /\ a \in DOMAIN accounts
    /\ accounts[a].command_tx # None
    /\ LET ch == accounts[a].command_tx
       IN  /\ Len(chans[ch]) < ChanCap
           /\ Sent(ch) < max
           /\ \E g \in DOMAIN accounts[a].guilds :
                \E cmd \in GuiCmds(g, accounts[a].guilds[g]) :
                   /\ cmd.kind \in kinds
                   /\ cmd.kind = "Play" =>
                         Len(tracks) + PlaysPending < MaxTracks
                   /\ chans' = [chans EXCEPT ![ch] = Append(@, cmd)]
    /\ UNCHANGED <<accounts, system_logs, manager_rx, sup, workers,
                   engineVars, mv>>

\* ------------------------------------------- one queue closure, applied alone
NoMove == [deque |-> <<>>, from |-> 0, to |-> 0, out |-> <<>>, applied |-> FALSE]

ApplyMove ==
    /\ ~mv.applied
    /\ \E overflow_checks \in BOOLEAN :
          mv' = [mv EXCEPT
                    !.out = move_track(mv.deque, mv.from, mv.to, overflow_checks),
                    !.applied = TRUE]
    /\ UNCHANGED <<accounts, system_logs, manager_rx, sup, workers, chans,
                   engineVars>>

\* the closure of ClearQueue on the same input
ApplyClear ==
    /\ ~mv.applied
    /\ mv' = [mv EXCEPT !.out = clear_queue(mv.deque), !.applied = TRUE]
    /\ UNCHANGED <<accounts, system_logs, manager_rx, sup, workers, chans,
                   engineVars>>

\* AppState::log called on its own; mv.deque keeps every message passed
LogCall ==
    /\ Len(mv.deque) < MaxLogCalls
    /\ \E msg \in Msgs :
          /\ system_logs' = AppState_log(system_logs, msg)
          /\ mv' = [mv EXCEPT !.deque = Append(@, msg)]
    /\ UNCHANGED <<accounts, manager_rx, sup, workers, chans, engineVars>>

\* ------------------------------------------------------------------ specs
\* the lifecycle: the store as loaded from the configuration, nothing running
Init ==
    /\ accounts = [a \in {"a1"} |-> AccountState_new(a)]
    /\ system_logs = <<>>
    /\ manager_rx = <<>>
    /\ sup = SupIdle
    /\ workers = <<>>
    /\ chans = <<>>
    /\ calls = <<>>
    /\ tracks = <<>>
    /\ tasks = {}
    /\ events = {}
    /\ mv = NoMove

LifeKinds == {"FetchChannels"}

GuiFrame(max) ==
    \E a \in AccountIds :
        \/ GuiStartBot(a, max) \/ GuiStopBot(a) \/ GuiDelete(a)
        \/ GuiSend(a, LifeKinds, MaxLifeCmds)

Gui == GuiFrame(MaxWorkers)

Supervisor == SpawnBotCheck \/ SpawnBotInstall \/ SpawnBotSpawn \/ KillBot

Connect(w) ==
    \/ RunInit(w) \/ RunConnectErr(w) \/ RunSetError(w)
    \/ RunAppInfo(w) \/ RunRoster(w) \/ RunReady(w)

Worker(w) ==
    \/ Connect(w)
    \/ LoopRecv(w) \/ HandleFetchChannels(w)
    \/ SyncBegin(w)
    \/ LoopClosed(w) \/ LoopExit(w)

Next == Gui \/ Supervisor \/ \E w \in 1..MaxWorkers : Worker(w)

Spec == Init /\ [][Next]_vars

\* playback: one account Online, its worker in the command loop, its guild
\* joined to a voice channel and reconciled once
PlayBase == Len(<<"FetchChannels", "Join">>)

InitPlay ==
    /\ accounts = [a \in {"a1"} |->
          [AccountState_new(a) EXCEPT
              !.status = Online, !.command_tx = 1, !.application_id = 1,
              !.guilds = [g \in {1} |->
                  [GuildState_new(g) EXCEPT !.channel_id = 7,
                                            !.voice_channels = <<7>>]]]]
    /\ system_logs = AppState_log(AppState_log(<<>>, "a1"), "a1")
    /\ manager_rx = <<>>
    /\ sup = SupIdle
    /\ workers = <<[BotInstance_new("a1") EXCEPT
                       !.pc = "loop", !.acted = TRUE, !.nrecv = PlayBase]>>
    /\ chans = << <<>> >>
    /\ calls = << [g \in {1} |-> [channel |-> 7, queue |-> <<>>]] >>
    /\ tracks = <<>>
    /\ tasks = {}
    /\ events = {}
    /\ mv = NoMove

PlayKinds == ControlKinds \cup {"Play", "RemoveTrack"}

GuiPlay == \E a \in AccountIds : GuiSend(a, PlayKinds, PlayBase + MaxPlayCmds)

WorkerPlay(w) ==
    \/ LoopRecv(w) \/ PlayLock(w) \/ PlayResolved(w) \/ PlaySourceError(w)
    \/ HandleRemoveTrack(w)
    \/ SyncBegin(w) \/ SyncSnapshot(w, 1) \/ SyncUpdate(w) \/ SyncPrune(w)

Engine ==
    \/ \E t \in tasks : ControlRun(t)
    \/ \E h \in 1..MaxTracks : TrackEnd(h) \/ TrackError(h) \/ ObserverAct(h)

NextPlay == GuiPlay \/ Engine \/ \E w \in 1..MaxWorkers : WorkerPlay(w)

SpecPlay == InitPlay /\ [][NextPlay]_vars

\* queue closures alone: every queue of distinct handles up to a length,
\* every index pair up to a value, and the largest usize
MaxQueue == 4
MaxIndex == 4
Indices == 0..MaxIndex \cup {WordSize - 1}

RECURSIVE Perms(_)
Perms(S) ==
    IF S = {} THEN {<<>>}
    ELSE UNION {{<<x>> \o p : p \in Perms(S \ {x})} : x \in S}

Deques == UNION {Perms(S) : S \in SUBSET (1..MaxQueue)}

InitMove ==
    /\ accounts = [a \in {"a1"} |-> AccountState_new(a)]
    /\ system_logs = <<>>
    /\ manager_rx = <<>>
    /\ sup = SupIdle
    /\ workers = <<>>
    /\ chans = <<>>
    /\ calls = <<>>
    /\ tracks = <<>>
    /\ tasks = {}
    /\ events = {}
    /\ mv \in {[deque |-> d, from |-> f, to |-> t, out |-> <<>>,
                applied |-> FALSE] :
                  d \in Deques, f \in Indices, t \in Indices}

NextMove == ApplyMove

SpecMove == InitMove /\ [][NextMove]_vars

\* sequential log calls on an empty log
InitLog == Init

NextLog == LogCall

SpecLog == InitLog /\ [][NextLog]_vars

\* the ClearQueue closure alone, on every such queue
InitClear == InitMove /\ mv.from = 0 /\ mv.to = 0

NextClear == ApplyClear

SpecClear == InitClear /\ [][NextClear]_vars

\* the lifecycle under the scheduling the runtime provides: every await of a
\* worker returns, and select! does not starve a ready recv branch
Fairness ==
    \A w \in 1..MaxWorkers :
        /\ WF_vars(Connect(w))
        /\ WF_vars(HandleFetchChannels(w) \/ LoopExit(w))
        /\ SF_vars(LoopRecv(w))
        /\ SF_vars(LoopClosed(w))

GuiLive == GuiFrame(MaxLiveWorkers)

NextLive == GuiLive \/ Supervisor \/ \E w \in 1..MaxWorkers : Worker(w)

LiveSpec == Init /\ [][NextLive]_vars /\ Fairness

\* the lifecycle with the Supervisor task scheduled as well: a request in
\* manager_rx is eventually handled
StartFairness == Fairness /\ WF_vars(Supervisor)

StartSpec == Init /\ [][NextLive]_vars /\ StartFairness

\* one worker inside an external call that never returns, next to the
\* lifecycle of the other accounts: the worker of a1 sits in the client
\* builder, in get_guilds, in get_channels, in join, in leave or in resolve
StalledWorker == 1

Stalls ==
    {[pc |-> "connecting", cur |-> NoCmd],
     [pc |-> "roster", cur |-> NoCmd],
     [pc |-> "cmd", cur |-> Cmd("FetchChannels", 1, 0, 0)],
     [pc |-> "cmd", cur |-> Cmd("Join", 1, 7, 0)],
     [pc |-> "cmd", cur |-> Cmd("Leave", 1, 0, 0)],
     [pc |-> "resolving", cur |-> Cmd("Play", 1, 1, 0)]}

\* the store and the worker of a1 when it is at that point
StalledAt(st) ==
    LET connected == st.pc \notin {"connecting", "roster"}
        joined == st.cur.kind \in {"Leave", "Play"}
    IN  /\ accounts = [a \in {"a1", "a2"} |->
              IF a = "a2" THEN AccountState_new(a)
              ELSE [AccountState_new(a) EXCEPT
                      !.status = IF connected THEN Online ELSE Starting,
                      !.command_tx = StalledWorker,
                      !.application_id = IF st.pc = "connecting" THEN None ELSE 1,
                      !.guilds = [g \in IF connected THEN {1} ELSE {} |->
                          [GuildState_new(g) EXCEPT
                              !.channel_id = IF joined THEN 7 ELSE None,
                              !.voice_channels = <<7>>]]]]
        /\ system_logs = IF connected
                         THEN AppState_log(AppState_log(<<>>, "a1"), "a1")
                         ELSE AppState_log(<<>>, "a1")
        /\ workers = <<[BotInstance_new("a1") EXCEPT
                           !.pc = st.pc, !.cur = st.cur,
                           !.acted = connected,
                           !.nrecv = IF ~connected THEN 0
                                     ELSE IF joined THEN PlayBase + 1
                                     ELSE IF st.cur.kind = "Join" THEN PlayBase
                                     ELSE 1,
                           !.locked = IF st.pc = "resolving" THEN 1 ELSE None]>>
        /\ calls = << [g \in IF joined THEN {1} ELSE {} |->
                          [channel |-> 7, queue |-> <<>>]] >>

InitStall ==
    /\ \E st \in Stalls : StalledAt(st)
    /\ manager_rx \in {<<>>, <<[kind |-> "StartBot", uuid |-> "a2"]>>}
    /\ sup = SupIdle
    /\ chans = << <<>> >>
    /\ tracks = <<>>
    /\ tasks = {}
    /\ events = {}
    /\ mv = NoMove

\* the presentation layer, used to start, stop and command the other
\* accounts
GuiStall ==
    \E a \in AccountIds \ {"a1"} :
        \/ GuiStartBot(a, Len(<<StalledWorker>>) + MaxLiveWorkers)
        \/ GuiStopBot(a)
        \/ GuiSend(a, LifeKinds, MaxLifeCmds)

\* the stalled worker takes no step
NextStall ==
    \/ GuiStall \/ Supervisor
    \/ \E w \in 1..MaxWorkers \ {StalledWorker} : Worker(w)

\* every await of the other workers returns and the Supervisor task runs
StallFairness ==
    /\ WF_vars(Supervisor)
    /\ \A w \in 1..MaxWorkers \ {StalledWorker} :
          /\ WF_vars(HandleFetchChannels(w))
          /\ SF_vars(LoopRecv(w))

StallSpec == InitStall /\ [][NextStall]_vars /\ StallFairness

\* playback of tracks while the account may be deleted from the dashboard:
\* the worker, the engine and the observers go on until the worker finds
\* its channel closed
GoneKinds == {"Play"}

GuiGone ==
    \E a \in AccountIds :
        \/ GuiDelete(a)
        \/ GuiSend(a, GoneKinds, PlayBase + MaxPlayCmds)

WorkerGone(w) ==
    \/ LoopRecv(w) \/ PlayLock(w) \/ PlayResolved(w) \/ PlaySourceError(w)
    \/ SyncBegin(w) \/ SyncSnapshot(w, 1) \/ SyncUpdate(w) \/ SyncPrune(w)
    \/ LoopClosed(w) \/ LoopExit(w)

EngineGone ==
    \E h \in 1..MaxTracks : TrackEnd(h) \/ TrackError(h) \/ ObserverAct(h)

NextGone == GuiGone \/ EngineGone \/ \E w \in 1..MaxWorkers : WorkerGone(w)

SpecGone == InitPlay /\ [][NextGone]_vars

\* joining and leaving: the account and worker of the playback
\* specification, the dashboard sending Join and Leave
\* the same under the scheduling the runtime provides: every await of the
\* worker returns, and select! does not starve a ready recv branch
GoneFairness ==
    \A w \in 1..MaxWorkers :
        /\ WF_vars(PlayLock(w) \/ PlayResolved(w) \/ PlaySourceError(w)
                   \/ SyncSnapshot(w, 1) \/ SyncUpdate(w) \/ SyncPrune(w)
                   \/ LoopExit(w))
        /\ SF_vars(LoopRecv(w))
        /\ SF_vars(LoopClosed(w))

SpecGoneFair == InitPlay /\ [][NextGone]_vars /\ GoneFairness

VoiceKinds == {"Join", "Leave"}

GuiVoice == \E a \in AccountIds : GuiSend(a, VoiceKinds, PlayBase + MaxPlayCmds)

WorkerVoice(w) ==
    \/ LoopRecv(w)
    \/ HandleJoin(w) \/ HandleJoinError(w)
    \/ HandleLeave(w) \/ HandleLeaveError(w) \/ HandleLeft(w)
    \/ SyncBegin(w) \/ SyncSnapshot(w, 1) \/ SyncUpdate(w) \/ SyncPrune(w)

NextVoice == GuiVoice \/ \E w \in 1..MaxWorkers : WorkerVoice(w)

SpecVoice == InitPlay /\ [][NextVoice]_vars

\* playback while the account may be stopped: the dashboard sends Play and
\* FetchChannels and the Stop request, the Supervisor handles the request,
\* the worker goes on until it finds its channel closed
StopKinds == {"Play", "FetchChannels"}

GuiStop ==
    \E a \in AccountIds :
        \/ GuiStopBot(a)
        \/ GuiSend(a, StopKinds, PlayBase + MaxPlayCmds)

WorkerStop(w) ==
    \/ LoopRecv(w) \/ PlayLock(w) \/ PlayResolved(w) \/ PlaySourceError(w)
    \/ HandleFetchChannels(w)
    \/ SyncBegin(w) \/ SyncSnapshot(w, 1) \/ SyncUpdate(w) \/ SyncPrune(w)
    \/ LoopClosed(w) \/ LoopExit(w)

NextStop ==
    \/ GuiStop \/ KillBot \/ EngineGone
    \/ \E w \in 1..MaxWorkers : WorkerStop(w)

SpecStop == InitPlay /\ [][NextStop]_vars

\* two accounts online in the same guild, each with its own worker, channel
\* and Call; a2 has handled one Play, whose track is playing and not yet
\* reconciled; the dashboard sends Play
InitTwo ==
    /\ accounts = [a \in {"a1", "a2"} |->
          [AccountState_new(a) EXCEPT
              !.status = Online, !.application_id = 1,
              !.command_tx = IF a = "a1" THEN 1 ELSE 2,
              !.guilds = [g \in {1} |->
                  [GuildState_new(g) EXCEPT !.channel_id = 7,
                                            !.voice_channels = <<7>>]]]]
    /\ system_logs = AppState_log(AppState_log(<<>>, "a1"), "a2")
    /\ manager_rx = <<>>
    /\ sup = SupIdle
    /\ workers = <<[BotInstance_new("a1") EXCEPT
                       !.pc = "loop", !.acted = TRUE, !.nrecv = PlayBase],
                   [BotInstance_new("a2") EXCEPT
                       !.pc = "loop", !.acted = TRUE, !.nrecv = PlayBase + 1,
                       !.track_lookup = [h \in {1} |-> TrackMetadata_new(h, 1)]]>>
    /\ chans = << <<>>, <<>> >>
    /\ calls = << [g \in {1} |-> [channel |-> 7, queue |-> <<>>]],
                  [g \in {1} |-> [channel |-> 7, queue |-> <<1>>]] >>
    /\ tracks = <<[mode |-> "Play", volume |-> DefaultVolume, position |-> 0,
                   w |-> 2, uuid |-> "a2", g |-> 1]>>
    /\ tasks = {}
    /\ events = {}
    /\ mv = NoMove

TwoKinds == {"Play"}

GuiTwo == \E a \in AccountIds : GuiSend(a, TwoKinds, PlayBase + MaxLifeCmds)

WorkerTwo(w) ==
    \/ LoopRecv(w) \/ PlayLock(w) \/ PlayResolved(w) \/ PlaySourceError(w)
    \/ SyncBegin(w) \/ SyncSnapshot(w, 1) \/ SyncUpdate(w) \/ SyncPrune(w)

NextTwo == GuiTwo \/ EngineGone \/ \E w \in 1..MaxWorkers : WorkerTwo(w)

SpecTwo == InitTwo /\ [][NextTwo]_vars

\* ---------------------------------------------------------------- claims
\* the Supervisor takes the request at the head of its queue in this step
SupTakes(kind, a) ==
    /\ sup.pc = "idle"
    /\ manager_rx # <<>>
    /\ Head(manager_rx) = [kind |-> kind, uuid |-> a]
    /\ manager_rx' = Tail(manager_rx)

\* C1: at most one Session Worker task of an account is alive at any time
C1_AtMostOneLiveWorker ==
    \A a \in AccountIds : Cardinality(LiveWorkers(a)) <= 1

C3_HandleIffWorkerRunning ==
    sup.pc = "idle" =>
        \A a \in DOMAIN accounts :
            accounts[a].command_tx # None <=> LiveWorkers(a) # {}

\* C4: StopBot leaves the worker task alone, and a worker whose channel has
\* no sender left eventually ends
C4_StopEndsWorker ==
    /\ [][\A a \in AccountIds : SupTakes("StopBot", a) => workers' = workers]_vars
    /\ \A w \in 1..MaxWorkers :
          (w \in DOMAIN workers /\ Alive(w) /\ ChanClosed(w))
              ~> (w \in DOMAIN workers /\ workers[w].pc = "done")

C4_Witness ==
    \E w \in DOMAIN workers :
        /\ workers[w].pc = "done"
        /\ workers[w].err = None
        /\ workers[w].uuid \in DOMAIN accounts
        /\ accounts[workers[w].uuid].status = Offline

\* C5: StopBot for an account without a live worker changes no account record
C5_StopWithoutWorkerIsNoOp ==
    [][\A a \in AccountIds :
          (/\ SupTakes("StopBot", a)
           /\ a \in DOMAIN accounts
           /\ LiveWorkers(a) = {})
          => accounts' = accounts]_vars

\* C6: StartBot and StopBot for an identifier that is not in the store
\* change nothing in the store, spawn nothing, and leave the Supervisor
\* ready for the next request
C6_UnknownAccountIgnored ==
    [][\A a \in AccountIds : \A kind \in {"StartBot", "StopBot"} :
          (SupTakes(kind, a) /\ a \notin DOMAIN accounts)
          => /\ accounts' = accounts
             /\ system_logs' = system_logs
             /\ workers' = workers
             /\ chans' = chans
             /\ sup' = SupIdle]_vars

C6_Witness ==
    /\ sup.pc = "idle"
    /\ manager_rx # <<>>
    /\ Head(manager_rx).uuid \notin DOMAIN accounts

\* C7: a worker whose connect failed sets Error(reason) and ends, and has
\* never received a command nor run a reconciliation tick
C7_ConnectFailure ==
    /\ [](\A w \in DOMAIN workers :
            workers[w].err # None =>
                /\ workers[w].pc \in {"failed", "done"}
                /\ ~workers[w].acted
                /\ workers[w].nrecv = 0)
    /\ [][\A w \in DOMAIN workers :
            (workers[w].pc = "connecting" /\ workers'[w].err # None)
                => workers'[w].pc = "failed"]_vars
    /\ [][\A w \in DOMAIN workers :
            (workers[w].pc = "failed" /\ workers'[w] # workers[w])
                => /\ workers'[w].pc = "done"
                   /\ workers[w].uuid \in DOMAIN accounts
                        => accounts'[workers[w].uuid].status
                             = Error(workers[w].err)]_vars
    /\ [][\A w \in DOMAIN workers :
            workers[w].pc = "done" => workers'[w] = workers[w]]_vars

C7_Witness ==
    \E w \in DOMAIN workers :
        /\ workers[w].pc = "done"
        /\ workers[w].err # None
        /\ workers[w].uuid \in DOMAIN accounts
        /\ accounts[workers[w].uuid].status = Error(workers[w].err)
        /\ chans[w] # <<>>

InLoop(w) ==
    workers[w].pc \in {"loop", "cmd", "join_error", "leave_error", "left",
                       "resolving", "source_error", "sync", "syncing"}

\* C8: a worker leaves the command loop only on a closed, drained channel,
\* and what it then writes last is Status = Offline
C8_LoopExit ==
    /\ [][\A w \in DOMAIN workers :
            (InLoop(w) /\ ~InLoop(w)')
                => /\ workers[w].pc = "loop"
                   /\ chans[w] = <<>>
                   /\ ChanClosed(w)
                   /\ workers'[w].pc = "closing"]_vars
    /\ [][\A w \in DOMAIN workers :
            (workers[w].pc = "closing" /\ workers'[w] # workers[w])
                => /\ workers'[w].pc = "done"
                   /\ workers[w].uuid \in DOMAIN accounts
                        => accounts'[workers[w].uuid].status = Offline]_vars

C8_Witness ==
    \E w \in DOMAIN workers :
        /\ workers[w].pc = "closing"
        /\ workers[w].nrecv > 0
        /\ workers[w].uuid \in DOMAIN accounts

\* C9: the engine effect of a command is applied only when no control task
\* of an earlier command of the same worker is still waiting to run
C9_CommandOrder ==
    [][/\ \A t \in tasks : t \notin tasks' =>
            \A u \in tasks : u.w = t.w => u.seq >= t.seq
       /\ \A w \in DOMAIN workers :
            (workers[w].pc \in {"cmd", "resolving"} /\ tracks' # tracks) =>
                \A u \in tasks : u.w # w]_vars

\* C10: MoveTrack within the visible queue moves the entry at engine index
\* from+1 to engine index to+1, keeps the other entries in order, permutes
\* the queue, leaves position 0 alone and stays inside the queue
C10_MoveTrack ==
    (/\ mv.applied
     /\ mv.from < Len(mv.deque) - 1
     /\ mv.to < Len(mv.deque) - 1)
    => /\ Len(mv.out) = Len(mv.deque)
       /\ Range(mv.out) = Range(mv.deque)
       /\ mv.out[mv.to + 2] = mv.deque[mv.from + 2]
       /\ DequeRemove(mv.out, mv.to + 1) = DequeRemove(mv.deque, mv.from + 1)
       /\ mv.out[1] = mv.deque[1]
       /\ mv.from + 1 < Len(mv.deque)
       /\ mv.to + 1 <= Len(DequeRemove(mv.deque, mv.from + 1))

C10_Witness ==
    /\ mv.applied
    /\ mv.from < Len(mv.deque) - 1
    /\ mv.to < Len(mv.deque) - 1
    /\ mv.from # mv.to
    /\ mv.out # mv.deque

\* C11: MoveTrack whose from or to is at or beyond the visible queue length
\* (the engine queue less its now-playing entry), or on an engine queue of
\* at most one entry, leaves the engine queue as it was
C11_MoveOutOfRange ==
    (/\ mv.applied
     /\ \/ Len(mv.deque) <= 1
        \/ mv.from >= Len(mv.deque) - 1
        \/ mv.to >= Len(mv.deque) - 1)
    => mv.out = mv.deque

\* C12: ClearQueue on an engine queue of n entries leaves min(n, 1) entries,
\* and the entry left is the one that was at position 0
C12_ClearQueue ==
    mv.applied =>
        /\ Len(mv.out) = (IF Len(mv.deque) >= 1 THEN 1 ELSE 0)
        /\ Len(mv.deque) >= 1 => mv.out[1] = mv.deque[1]

C12_Witness ==
    /\ mv.applied
    /\ Len(mv.deque) >= 3
    /\ mv.out = <<mv.deque[1]>>

\* the worker receives and handles a command of this kind in this step
Handles(w, kind) ==
    /\ workers[w].pc = "loop"
    /\ chans[w] # <<>>
    /\ Head(chans[w]).kind = kind
    /\ workers'[w].nrecv = workers[w].nrecv + 1

\* C13: when Volume(v) has been handled for a guild of the account's record,
\* the Guild record's volume is v in the same step, before any tick and
\* while the control task for the engine is still waiting to run
C13_VolumeMirrored ==
    [][\A w \in DOMAIN workers :
          Handles(w, "Volume") =>
             LET cmd == Head(chans[w])
                 uuid == workers[w].uuid
             IN  (/\ uuid \in DOMAIN accounts
                  /\ cmd.guild_id \in DOMAIN accounts[uuid].guilds)
                 => /\ accounts'[uuid].guilds[cmd.guild_id].volume = cmd.a
                    /\ workers'[w].pc = "loop"
                    /\ tasks \subseteq tasks'
                    /\ tracks' = tracks]_vars

C13_Witness ==
    \E t \in tasks :
        /\ t.op = "Volume"
        /\ workers[t.w].uuid \in DOMAIN accounts
        /\ accounts[workers[t.w].uuid].guilds[t.g].volume = t.a
        /\ \E h \in Range(calls[t.w][t.g].queue) : tracks[h].volume # t.a

\* C14: the tracks a Volume(v) command sets are those of the engine queue
\* as it stood when the worker handled the command: each of them still
\* alive gets v, and no other track's volume changes
C14_VolumeTargets ==
    [][\A t \in tasks :
          (t.op = "Volume" /\ t \notin tasks') =>
             /\ \A h \in DOMAIN tracks :
                   tracks'[h].volume # tracks[h].volume => h \in t.at
             /\ \A h \in t.at :
                   ~Done(tracks[h].mode) => tracks'[h].volume = t.a]_vars

C16_LogBounded == Len(system_logs) <= LogCap

\* C17: after n log calls on an empty log, the log is the last
\* min(n, capacity) messages passed, in the order they were passed
C17_LogKeepsLatest ==
    LET n == Len(mv.deque)
        kept == IF n < LogCap THEN n ELSE LogCap
    IN  system_logs = SubSeq(mv.deque, n - kept + 1, n)

C17_Witness ==
    /\ Len(mv.deque) > LogCap + 1
    /\ Len(system_logs) = LogCap
    /\ system_logs[1] # system_logs[LogCap]

\* the Guild records of the store
GuildRecords ==
    {accounts[a].guilds[g] : <<a, g>> \in
        UNION {{<<a, g>> : g \in DOMAIN accounts[a].guilds} :
                  a \in DOMAIN accounts}}

\* C18: no Guild record ever has is_playing and is_paused both true
C18_PlayingXorPaused ==
    \A gs \in GuildRecords : ~(gs.is_playing /\ gs.is_paused)

C18_Witness ==
    /\ \E gs \in GuildRecords : gs.is_paused /\ gs.now_playing # NoMeta
    /\ \E h \in DOMAIN tracks : tracks[h].mode = "End"

\* the engine has a track loaded for guild g of account a
Loaded(a, g) ==
    \E w \in DOMAIN workers :
        /\ workers[w].uuid = a
        /\ g \in DOMAIN calls[w]
        /\ calls[w][g].queue # <<>>

\* C19: a Guild record's now_playing is None exactly when the engine has no
\* track loaded for the guild
C19_NowPlayingIffLoaded ==
    \A a \in DOMAIN accounts : \A g \in DOMAIN accounts[a].guilds :
        (accounts[a].guilds[g].now_playing = NoMeta) <=> ~Loaded(a, g)

C22_StartOrder ==
    /\ [][\A a \in DOMAIN accounts :
            (SupTakes("StartBot", a) /\ accounts[a].status \notin {Starting, Online})
            => /\ accounts' = [accounts EXCEPT ![a].status = Starting]
               /\ sup'.pc = "install" /\ sup'.uuid = a
               /\ sup'.tx \notin DOMAIN workers
               /\ chans'[sup'.tx] = <<>>
               /\ \A b \in DOMAIN accounts : accounts[b].command_tx # sup'.tx
               /\ workers' = workers]_vars
    /\ [][(sup.pc = "install" /\ sup' # sup)
            => /\ sup'.pc = "spawn" /\ sup'.uuid = sup.uuid
               /\ workers' = workers
               /\ sup.tx \notin DOMAIN workers
               /\ sup.uuid \in DOMAIN accounts =>
                     accounts' = [accounts EXCEPT ![sup.uuid].command_tx = sup.tx]]_vars
    /\ [][(sup.pc = "spawn" /\ sup' # sup)
            => /\ sup' = SupIdle
               /\ workers' = Append(workers, BotInstance_new(sup.uuid))
               /\ accounts' = accounts
               /\ sup.uuid \in DOMAIN accounts =>
                     accounts[sup.uuid].command_tx = Len(workers')]_vars
    /\ [][Len(workers') # Len(workers) => sup.pc = "spawn"]_vars

C22_Witness ==
    /\ sup.pc = "spawn"
    /\ sup.uuid \in DOMAIN accounts
    /\ accounts[sup.uuid].command_tx = Len(workers) + 1
    /\ \E w \in DOMAIN workers :
          workers[w].uuid = sup.uuid /\ workers[w].err # None

\* C23: when the roster step takes an account from Starting to Online,
\* every guild entry the account had is unchanged, every roster guild that
\* had no entry gets a fresh default entry, and the entries afterwards
\* are those two kinds only
C23_RosterMerge ==
    [][\A w \in DOMAIN workers :
          LET id == workers[w].uuid
          IN  (/\ workers[w].pc = "roster" /\ workers'[w].pc = "ready"
               /\ id \in DOMAIN accounts
               /\ accounts[id].status = Starting
               /\ accounts'[id].status = Online)
              => LET old == accounts[id].guilds
                     new == accounts'[id].guilds
                 IN  /\ \A g \in DOMAIN old : g \in DOMAIN new /\ new[g] = old[g]
                     /\ \A g \in workers'[w].roster \ DOMAIN old :
                           g \in DOMAIN new /\ new[g] = GuildState_new(g)
                     /\ DOMAIN new = DOMAIN old \cup workers'[w].roster]_vars

C23_Witness ==
    \E w \in DOMAIN workers :
        /\ workers[w].pc = "ready"
        /\ workers[w].roster # {}
        /\ workers[w].uuid \in DOMAIN accounts
        /\ accounts[workers[w].uuid].status = Online
        /\ \E g \in workers[w].roster :
              accounts[workers[w].uuid].guilds[g] # GuildState_new(g)

\* C24: the step of a reconciliation pass that writes a guild with a Call
\* leaves in the Guild record, as queue, the index metadata of the engine
\* queue's entries from position 1 on, in engine order, those without an
\* index entry left out, and as now_playing the index metadata of the
\* engine's current track, None when there is no current track (the
\* current track being the one the pass read, or the one the engine has
\* when the record is written)
C24_RebuiltFromSnapshot ==
    [][\A w \in DOMAIN workers :
          LET id == workers[w].uuid
              g == workers[w].locked
              snap == workers[w].snap
          IN  (/\ workers[w].pc = "syncing" /\ workers'[w].pc = "sync"
               /\ id \in DOMAIN accounts
               /\ g \in DOMAIN accounts[id].guilds)
              => /\ accounts'[id].guilds[g].queue =
                       (IF snap.queue = <<>> THEN <<>>
                        ELSE LookupAll(w, Tail(snap.queue)))
                 /\ accounts'[id].guilds[g].now_playing \in
                       {IF snap.current = None THEN NoMeta
                        ELSE Lookup(w, snap.current),
                        IF calls[w][g].queue = <<>> THEN NoMeta
                        ELSE Lookup(w, Head(calls[w][g].queue))}]_vars

Observes(h) == h \in events /\ h \notin events'

\* C26: an observer invocation for a track in state End sets, in that
\* step, now_playing to None and is_playing to false in the record of the
\* track's guild, and changes nothing else in the account records
C26_EndClearsNowPlaying ==
    [][\A h \in DOMAIN tracks :
          LET uuid == tracks[h].uuid
              g == tracks[h].g
          IN  (/\ Observes(h)
               /\ tracks[h].mode = "End"
               /\ uuid \in DOMAIN accounts
               /\ g \in DOMAIN accounts[uuid].guilds)
              => /\ accounts'[uuid].guilds[g].now_playing = NoMeta
                 /\ ~accounts'[uuid].guilds[g].is_playing
                 /\ accounts' = [accounts EXCEPT
                        ![uuid].guilds[g].now_playing = NoMeta,
                        ![uuid].guilds[g].is_playing = FALSE]
                 /\ workers' = workers]_vars

C26_Witness ==
    \E h \in DOMAIN tracks \ events :
        LET gs == accounts[tracks[h].uuid].guilds[tracks[h].g]
            w == tracks[h].w
        IN  /\ tracks[h].mode = "End"
            /\ h \in DOMAIN workers[w].track_lookup
            /\ gs.now_playing = NoMeta /\ ~gs.is_playing
            /\ calls[w][tracks[h].g].queue # <<>>
            /\ tracks[Head(calls[w][tracks[h].g].queue)].mode = "Play"
            /\ gs.queue # <<>>

\* C27: an observer invocation for a track in state Errored appends one
\* entry to the system log and leaves is_playing, is_paused, now_playing
\* and queue of every Guild record as they were
C27_ErrorLogsOnly ==
    [][\A h \in DOMAIN tracks :
          (Observes(h) /\ tracks[h].mode = "Errored")
          => /\ Len(system_logs') = Len(system_logs) + 1
             /\ \A i \in DOMAIN system_logs : system_logs'[i] = system_logs[i]
             /\ DOMAIN accounts' = DOMAIN accounts
             /\ \A a \in DOMAIN accounts :
                   /\ DOMAIN accounts'[a].guilds = DOMAIN accounts[a].guilds
                   /\ \A g \in DOMAIN accounts[a].guilds :
                         LET old == accounts[a].guilds[g]
                             new == accounts'[a].guilds[g]
                         IN  /\ new.is_playing = old.is_playing
                             /\ new.is_paused = old.is_paused
                             /\ new.now_playing = old.now_playing
                             /\ new.queue = old.queue]_vars

\* C28: when the resolver fails for a Play command, nothing is enqueued;
\* the worker then logs one entry and is back in its loop, with the engine
\* queue, the tracks, its index and the account records as they were; and
\* a worker in its loop can tick and can receive a queued command
C28_ResolutionFailure ==
    /\ [][\A w \in DOMAIN workers :
            /\ (workers[w].pc = "resolving" /\ workers'[w].pc = "source_error")
                  => /\ UNCHANGED <<tracks, calls, accounts, system_logs>>
                     /\ workers'[w].track_lookup = workers[w].track_lookup
            /\ (workers[w].pc = "source_error" /\ workers'[w] # workers[w])
                  => /\ system_logs' \in
                           {Append(system_logs, workers[w].uuid),
                            Tail(Append(system_logs, workers[w].uuid))}
                     /\ UNCHANGED <<tracks, calls, accounts>>
                     /\ workers'[w].track_lookup = workers[w].track_lookup
                     /\ workers'[w].pc = "loop"
                     /\ workers'[w].locked = None]_vars
    /\ [](\A w \in DOMAIN workers :
            workers[w].pc = "loop" =>
               /\ ENABLED SyncBegin(w)
               /\ chans[w] # <<>> => ENABLED LoopRecv(w))

C28_Witness ==
    \E w \in DOMAIN workers :
        /\ workers[w].pc = "source_error"
        /\ chans[w] # <<>>
        /\ calls[w][workers[w].cur.guild_id].queue # <<>>
        /\ workers[w].track_lookup # <<>>

\* C29: handling RemoveTrack(id) stops no track but the first entry of the
\* engine queue whose index metadata carries id, stops that one if it is
\* still alive, stops nothing when no entry matches, and leaves the
\* account records, so the Guild record's queue, as they were
C29_RemoveTrack ==
    [][\A w \in DOMAIN workers :
          (/\ workers[w].pc = "cmd" /\ workers[w].cur.kind = "RemoveTrack"
           /\ workers'[w].pc = "loop")
          => LET g == workers[w].cur.guild_id
                 id == workers[w].cur.a
                 q == IF g \in DOMAIN calls[w] THEN calls[w][g].queue ELSE <<>>
                 lookup == workers[w].track_lookup
                 hit(i) == q[i] \in DOMAIN lookup /\ lookup[q[i]].uuid = id
                 first == {i \in DOMAIN q :
                              hit(i) /\ \A j \in 1..(i - 1) : ~hit(j)}
                 stopped == {h \in DOMAIN tracks :
                                Done(tracks'[h].mode) /\ ~Done(tracks[h].mode)}
             IN  /\ Cardinality(stopped) <= 1
                 /\ stopped = {q[i] : i \in first} \cap
                                 {h \in DOMAIN tracks : ~Done(tracks[h].mode)}
                 /\ accounts' = accounts
                 /\ workers'[w].track_lookup = lookup]_vars

C29_Witness ==
    \E w \in DOMAIN workers : \E g \in DOMAIN calls[w] :
        LET q == calls[w][g].queue
        IN  /\ workers[w].pc = "loop"
            /\ Len(q) >= 2
            /\ tracks[q[1]].mode = "Play"
            /\ tracks[q[2]].mode = "Stop"
            /\ \E i \in DOMAIN accounts[workers[w].uuid].guilds[g].queue :
                  accounts[workers[w].uuid].guilds[g].queue[i] = Lookup(w, q[2])

\* C30: when the engine rejects a Join or a Leave, the worker logs one
\* entry, no account's Status changes, the command is neither handled
\* again nor put back on the channel, the worker is back in its loop
\* (after Leave has cleared the record's channel), and a worker in its
\* loop can receive the next command
C30_VoiceFailure ==
    /\ [][\A w \in DOMAIN workers :
            LET logged == system_logs' \in
                              {Append(system_logs, workers[w].uuid),
                               Tail(Append(system_logs, workers[w].uuid))}
                same_status == /\ DOMAIN accounts' = DOMAIN accounts
                               /\ \A a \in DOMAIN accounts :
                                     accounts'[a].status = accounts[a].status
            IN  /\ (workers[w].pc = "cmd" /\
                      workers'[w].pc \in {"join_error", "leave_error"})
                      => accounts' = accounts /\ chans' = chans
                /\ (workers[w].pc = "join_error" /\ workers'[w] # workers[w])
                      => /\ logged /\ accounts' = accounts /\ chans' = chans
                         /\ workers'[w].pc = "loop"
                         /\ workers'[w].cur = NoCmd
                /\ (workers[w].pc = "leave_error" /\ workers'[w] # workers[w])
                      => /\ logged /\ accounts' = accounts /\ chans' = chans
                         /\ workers'[w].pc = "left"
                /\ (workers[w].pc = "left" /\ workers'[w] # workers[w])
                      => /\ same_status /\ chans' = chans
                         /\ workers'[w].pc = "loop"
                         /\ workers'[w].cur = NoCmd]_vars
    /\ [](\A w \in DOMAIN workers :
            (workers[w].pc = "loop" /\ chans[w] # <<>>) => ENABLED LoopRecv(w))

C30_Witness ==
    \E w \in DOMAIN workers :
        /\ workers[w].pc \in {"join_error", "leave_error"}
        /\ chans[w] # <<>>
        /\ accounts[workers[w].uuid].status = Online
        /\ workers[w].nrecv > PlayBase + 1

\* the positions of a worker inside handle_command
CmdPcs ==
    {"cmd", "resolving", "source_error", "join_error", "leave_error", "left"}

C32_OnlineHasHandle ==
    \A a \in DOMAIN accounts :
        accounts[a].status = Online => accounts[a].command_tx # None

\* C33: an account whose Status is Offline has no command handle and no
\* worker that is still connecting or in its command loop
C33_OfflineIsQuiet ==
    \A a \in DOMAIN accounts :
        accounts[a].status = Offline =>
            /\ accounts[a].command_tx = None
            /\ LiveWorkers(a) = {}

\* C34: an account that is Starting and has its worker spawned eventually
\* is not Starting any more (Online, Error, or stopped or deleted meanwhile)
C34_StartingEnds ==
    \A a \in AccountIds :
        (/\ a \in DOMAIN accounts
         /\ accounts[a].status = Starting
         /\ LiveWorkers(a) # {})
        ~> (a \notin DOMAIN accounts \/ accounts[a].status # Starting)

\* C35: an observer invocation for a track that is not at the head of its
\* guild's engine queue, while the head track is playing and the record
\* shows it, leaves the record's now_playing and is_playing as they are
C35_StaleEndKeepsCurrent ==
    [][\A h \in DOMAIN tracks :
          LET uuid == tracks[h].uuid
              g == tracks[h].g
              q == calls[tracks[h].w][g].queue
          IN  (/\ Observes(h)
               /\ uuid \in DOMAIN accounts
               /\ g \in DOMAIN accounts[uuid].guilds
               /\ q # <<>>
               /\ Head(q) # h
               /\ tracks[Head(q)].mode = "Play"
               /\ accounts[uuid].guilds[g].is_playing
               /\ accounts[uuid].guilds[g].now_playing # NoMeta)
              => /\ accounts'[uuid].guilds[g].now_playing =
                      accounts[uuid].guilds[g].now_playing
                 /\ accounts'[uuid].guilds[g].is_playing]_vars

\* C36: a reconciliation write for a guild whose record holds the volume v
\* of a Volume command, with no Volume task of the guild left to run,
\* leaves the record's volume at v
C36_VolumeKept ==
    [][\A w \in DOMAIN workers :
          LET id == workers[w].uuid
              g == workers[w].locked
          IN  (/\ workers[w].pc = "syncing"
               /\ workers'[w] # workers[w]
               /\ id \in DOMAIN accounts
               /\ g \in DOMAIN accounts[id].guilds
               /\ accounts[id].guilds[g].volume \in Volumes
               /\ \A t \in tasks : ~(t.w = w /\ t.g = g /\ t.op = "Volume"))
              => accounts'[id].guilds[g].volume =
                    accounts[id].guilds[g].volume]_vars

\* C38: for every from and to of the machine word, the entry at engine
\* queue position 0 is at position 0 after MoveTrack
C38_HeadStays ==
    (mv.applied /\ Len(mv.deque) >= 1)
    => /\ Len(mv.out) >= 1
       /\ mv.out[1] = mv.deque[1]

\* C37: a command channel changes only by a send at its tail or by its
\* worker receiving its head, which the worker then handles (a control
\* command at once, any other as its current command); a worker with a
\* queued command can receive it also when the last sender is gone, and it
\* observes the closure only on an empty channel
C37_QueuedCommandsHandled ==
    /\ [][\A w \in DOMAIN chans :
            \/ chans'[w] = chans[w]
            \/ /\ Len(chans'[w]) = Len(chans[w]) + 1
               /\ SubSeq(chans'[w], 1, Len(chans[w])) = chans[w]
            \/ /\ chans[w] # <<>>
               /\ chans'[w] = Tail(chans[w])
               /\ workers[w].pc = "loop"
               /\ workers'[w].nrecv = workers[w].nrecv + 1
               /\ IF Head(chans[w]).kind \in ControlKinds
                  THEN tasks' = call_control(w, Head(chans[w]),
                                             workers'[w].nrecv)
                  ELSE /\ workers'[w].cur = Head(chans[w])
                       /\ workers'[w].pc = "cmd"]_vars
    /\ [][\A w \in DOMAIN workers :
            (workers[w].pc # "closing" /\ workers'[w].pc = "closing")
            => chans[w] = <<>> /\ ChanClosed(w)]_vars
    /\ [](\A w \in DOMAIN workers :
            (workers[w].pc = "loop" /\ chans[w] # <<>>)
            => ENABLED LoopRecv(w))

C37_Witness ==
    \E w \in DOMAIN workers :
        /\ ChanClosed(w)
        /\ Len(chans[w]) = 2
        /\ chans[w][1].kind # chans[w][2].kind
        /\ workers[w].pc = "loop"

\* C39: a step of a worker leaves the record of every account other than
\* the worker's own as it is, and so does an observer invocation for every
\* account other than the one its track was enqueued for
C39_OwnAccountOnly ==
    [][/\ \A w \in DOMAIN workers :
            workers'[w] # workers[w] =>
                \A b \in DOMAIN accounts \ {workers[w].uuid} :
                    b \in DOMAIN accounts' /\ accounts'[b] = accounts[b]
       /\ \A h \in DOMAIN tracks :
            Observes(h) =>
                \A b \in DOMAIN accounts \ {tracks[h].uuid} :
                    b \in DOMAIN accounts' /\ accounts'[b] = accounts[b]]_vars

C39_Witness ==
    /\ accounts["a1"].guilds[1].is_playing
    /\ accounts["a1"].guilds[1].now_playing # NoMeta
    /\ tracks[1].uuid = "a2" /\ tracks[1].mode = "End" /\ 1 \notin events
    /\ accounts["a2"].guilds[1].now_playing = NoMeta
    /\ workers[2].acted /\ workers[2].pc = "loop"

====
